---- MODULE Spec2Model ----
(***************************************************************************)
(* adansonia (src/src/main.rs): a disk-usage explorer.  main canonicalizes *)
(* the root, scan() walks the tree with a pool of work-stealing workers,   *)
(* Tree::preprocess sorts the records by path and Tree::accumulate folds   *)
(* the sizes upward, and the browsing loop asks Tree::get for the children *)
(* of the current directory.                                               *)
(*                                                                         *)
(* A path is the sequence of its Normal components (the leading RootDir    *)
(* component is implicit); a component is the sequence of its bytes.       *)
(***************************************************************************)
EXTENDS Integers, Sequences, FiniteSets, TLC

VARIABLES
    fs,         \* the filesystem: a set of nodes (environment, fixed during a run)
    benchmark,  \* Args.benchmark
    mainPc,     \* main thread: start, join, stop, joinprog, scanned, sorted,
                \*              browse, exit, panic
    joinIdx,    \* index of the next handle main joins
    deque,      \* deque[i]: worker i's LIFO work-stealing deque of paths
    wpc,        \* worker thread: idle, pop, steal, iter, done, panic
    wk,         \* position of worker i in its stealers list during a sweep
    wdir,       \* directory worker i is expanding (<<>> when none)
    wrest,      \* entries of the read_dir iterator worker i has not seen yet
    result,     \* result[i]: worker i's private Vec<Info>
    pushed,     \* history: how often each path was pushed onto a deque
    expanded,   \* history: how often each path was taken and passed to read_dir
    retries,    \* history: number of Steal::Retry outcomes so far
    sweep,      \* history: for worker i's current loop iteration, whether its
                \*          own pop returned None and which stealers answered
                \*          Empty
    chan,       \* the mpsc channel to the progress thread
    progPc,     \* progress thread: idle, recv, done
    progI,      \* the progress thread's counter i
    data,       \* main's result vector, then Tree.data
    scanned,    \* history: the Tree as scan() returned it
    trace,      \* history: the stages main has completed
    cwd,        \* browsing: current directory
    depths,     \* browsing: stack of selection positions
    items,      \* browsing: list.items
    selected,   \* browsing: list.state.selected(), None is -1
    shown,      \* history: per path, what the first Tree::get returned and
                \*          the index it was called on
    asked,      \* history: the paths passed to Tree::get
    entered,    \* history: cwd, items and selection at each interact that
                \*          entered a directory not yet left with '-'
    nav         \* history: the last event if it entered or left a directory,
                \*          with the cwd, items and selection it started from
                \*          (enter) or has to restore (back)

vars == <<fs, benchmark, mainPc, joinIdx, deque, wpc, wk, wdir, wrest, result,
          pushed, expanded, retries, sweep, chan, progPc, progI, data, scanned, trace,
          cwd, depths, items, selected, shown, asked, entered, nav>>

scanVars == <<deque, wpc, wk, wdir, wrest, result, pushed, expanded, retries,
              sweep>>
progVars == <<chan, progPc, progI>>
browseVars == <<cwd, depths, items, selected, shown, asked, entered, nav>>

----------------------------------------------------------------------------
(* Bounds and program constants *)

NumThreads == 2
MaxRetry == 1
SumsLen == 4096
ProgressEvery == 100

Workers == 0 .. (NumThreads - 1)
None == -1

----------------------------------------------------------------------------
(* Paths *)

NmR == <<114>>
NmA == <<97>>
NmADash == <<97, 45>>
NmB == <<98>>

Root == <<NmR>>

Depth(p) == Len(p) + 1

Parent(p) == SubSeq(p, 1, Len(p) - 1)

(* q lies in the subtree of p (p itself included). *)
Under(q, p) ==
    /\ Len(p) <= Len(q)
    /\ \A k \in 1 .. Len(p) : q[k] = p[k]

RECURSIVE CmpBytes(_, _)
CmpBytes(a, b) ==
    IF a = <<>> /\ b = <<>> THEN 0
    ELSE IF a = <<>> THEN -1
    ELSE IF b = <<>> THEN 1
    ELSE IF Head(a) < Head(b) THEN -1
    ELSE IF Head(a) > Head(b) THEN 1
    ELSE CmpBytes(Tail(a), Tail(b))

RECURSIVE CmpComponents(_, _)
CmpComponents(p, q) ==
    IF p = <<>> /\ q = <<>> THEN 0
    ELSE IF p = <<>> THEN -1
    ELSE IF q = <<>> THEN 1
    ELSE LET c == CmpBytes(Head(p), Head(q))
         IN  IF c # 0 THEN c ELSE CmpComponents(Tail(p), Tail(q))

RECURSIVE RawBytes(_)
RawBytes(p) ==
    IF p = <<>> THEN <<>> ELSE <<47>> \o Head(p) \o RawBytes(Tail(p))

CmpRawString(p, q) == CmpBytes(RawBytes(p), RawBytes(q))

PathCmp(p, q) == CmpComponents(p, q)

----------------------------------------------------------------------------
(* The filesystem *)

Dir(p) ==
    [path |-> p, kind |-> "dir", dev |-> "dev0", size |-> 4096,
     listErr |-> FALSE, statErr |-> FALSE]

File(p, s) ==
    [path |-> p, kind |-> "file", dev |-> "dev0", size |-> s,
     listErr |-> FALSE, statErr |-> FALSE]

ShapeA ==
    { Dir(Root),
      File(<<NmR, NmADash>>, 100),
      Dir(<<NmR, NmA>>),
      File(<<NmR, NmA, NmB>>, 200),
      Dir(<<NmR, NmA, NmA>>),
      File(<<NmR, NmA, NmA, NmB>>, 50) }

ShapeB ==
    { Dir(Root),
      Dir(<<NmR, NmA>>),
      File(<<NmR, NmA, NmB>>, 100),
      Dir(<<NmR, NmADash>>),
      File(<<NmR, NmADash, NmA>>, 100),
      File(<<NmR, NmADash, NmB>>, 50) }

Shapes == {ShapeA, ShapeB}

Decos == {"symlink", "otherdev", "listErr", "statErr"}

DecoNode(n, deco) ==
    CASE deco = "symlink"  -> [n EXCEPT !.kind = "symlink", !.size = 7]
      [] deco = "otherdev" -> [n EXCEPT !.dev = "dev1"]
      [] deco = "listErr"  -> [n EXCEPT !.listErr = TRUE]
      [] deco = "statErr"  -> [n EXCEPT !.statErr = TRUE]

Decorate(shape, p, deco) ==
    { IF n.path = p THEN DecoNode(n, deco)
      ELSE IF deco = "otherdev" /\ Under(n.path, p) THEN [n EXCEPT !.dev = "dev1"]
      ELSE n : n \in shape }

DecoOk(n, deco) ==
    /\ deco = "listErr" => n.kind = "dir"
    /\ n.path = Root => deco = "listErr"

FileSystems ==
    Shapes \cup
    UNION { { Decorate(s, n.path, d) : n \in {m \in s : DecoOk(m, d)} } :
            s \in Shapes, d \in Decos }

Universe == UNION { {n.path : n \in s} : s \in Shapes }

Node(p) == CHOOSE n \in fs : n.path = p

Children(p) == { n \in fs : Len(n.path) = Len(p) + 1 /\ Under(n.path, p) }

----------------------------------------------------------------------------
(* scan: the worker pool *)

RemoveAt(s, k) == SubSeq(s, 1, k - 1) \o SubSeq(s, k + 1, Len(s))

RotateRight(s, k) ==
    IF Len(s) = 0 THEN s
    ELSE [j \in 1 .. Len(s) |-> s[((j - 1 - k) % Len(s)) + 1]]

AllStealers == [j \in 1 .. NumThreads |-> j - 1]

Stealers(i) == RotateRight(RemoveAt(AllStealers, i + 1), i)

(* line 168: a child that is a symlink or on another device is skipped. *)
SkipChildSymlinkOnly(e) == e.kind = "symlink"
SkipChild(e) == e.kind = "symlink" \/ e.dev # Node(Root).dev

(* lines 172-181: the record of a child; a directory starts at size 0. *)
ChildInfoInodeSize(e) ==
    [path |-> e.path,
     depth |-> Depth(e.path),
     size |-> e.size,
     is_dir |-> e.kind = "dir"]

ChildInfo(e) ==
    [path |-> e.path,
     depth |-> Depth(e.path),
     size |-> IF e.kind = "dir" THEN 0 ELSE e.size,
     is_dir |-> e.kind = "dir"]

(* lines 201-206: the synthetic record of the root; its depth counts the   *)
(* components of the canonical root path.                                  *)
RootInfoDepthZero ==
    [path |-> Root, depth |-> 0, size |-> Node(Root).size, is_dir |-> TRUE]

RootInfo ==
    [path |-> Root, depth |-> Depth(Root), size |-> Node(Root).size, is_dir |-> TRUE]

(* lines 201-206: main's result vector starts with the synthetic root record. *)
InitialResultNoRoot == <<>>
InitialResult == <<RootInfo>>

(* line 144: what pop() leaves in the owner's deque. *)
AfterPop(q) == SubSeq(q, 1, Len(q) - 1)

(* line 148: what a successful steal() leaves in the victim's deque. *)
AfterStealKept(q) == q
AfterSteal(q) == Tail(q)

(* line 162: `let _ =` drops the Err of read_dir and the loop goes on. *)
ListErrPcUnwrap == "panic"
ListErrPc == "pop"

(* No directory entered or left by the last event. *)
NoNav == [kind |-> "none", cwd |-> <<>>, items |-> <<>>, selected |-> -1]

(* lines 143-155: what a loop iteration of a worker has seen so far. *)
NoSweep == [popNone |-> FALSE, empty |-> {}]

(* line 152: Steal::Retry => Some(()) keeps the `while let` on the same    *)
(* stealer.                                                                *)
RetryAsEmpty == FALSE
RetryAgain == TRUE

Init ==
    /\ fs \in FileSystems
    /\ benchmark \in BOOLEAN
    /\ mainPc = "start"
    /\ joinIdx = 0
    /\ deque = [i \in Workers |-> <<>>]
    /\ wpc = [i \in Workers |-> "idle"]
    /\ wk = [i \in Workers |-> 0]
    /\ wdir = [i \in Workers |-> <<>>]
    /\ wrest = [i \in Workers |-> {}]
    /\ result = [i \in Workers |-> <<>>]
    /\ pushed = [p \in Universe |-> 0]
    /\ expanded = [p \in Universe |-> 0]
    /\ retries = 0
    /\ sweep = [i \in Workers |-> NoSweep]
    /\ chan = <<>>
    /\ progPc = "idle"
    /\ progI = 0
    /\ data = <<>>
    /\ scanned = <<>>
    /\ trace = <<>>
    /\ cwd = Root
    /\ depths = <<>>
    /\ items = <<>>
    /\ selected = None
    /\ shown = <<>>
    /\ asked = {}
    /\ entered = <<>>
    /\ nav = NoNav

(* lines 106-141 and 201-206: spawn the progress thread, seed worker 0,    *)
(* spawn the workers, build the synthetic root record.                     *)
ScanStart ==
    /\ mainPc = "start"
    /\ mainPc' = "join"
    /\ progPc' = "recv"
    /\ deque' = [deque EXCEPT ![0] = Append(@, Root)]
    /\ pushed' = [pushed EXCEPT ![Root] = @ + 1]
    /\ wpc' = [i \in Workers |-> "pop"]
    /\ data' = InitialResult
    /\ UNCHANGED <<fs, benchmark, joinIdx, wk, wdir, wrest, result, expanded,
                   retries, sweep, chan, progI, scanned, trace>>
    /\ UNCHANGED browseVars

(* Worker i has obtained `p` (lines 143-159) and calls read_dir on it     *)
(* (line 162): an Err is dropped, an empty listing ends the for loop at    *)
(* once, otherwise the worker iterates over the entries.                   *)
Expand(i, p) ==
    /\ expanded' = [expanded EXCEPT ![p] = @ + 1]
    /\ IF Node(p).listErr
       THEN /\ wpc' = [wpc EXCEPT ![i] = ListErrPc]
            /\ wdir' = [wdir EXCEPT ![i] = <<>>]
            /\ wrest' = [wrest EXCEPT ![i] = {}]
       ELSE IF Children(p) = {}
       THEN /\ wpc' = [wpc EXCEPT ![i] = "pop"]
            /\ wdir' = [wdir EXCEPT ![i] = <<>>]
            /\ wrest' = [wrest EXCEPT ![i] = {}]
       ELSE /\ wpc' = [wpc EXCEPT ![i] = "iter"]
            /\ wdir' = [wdir EXCEPT ![i] = p]
            /\ wrest' = [wrest EXCEPT ![i] = Children(p)]

(* line 144: worker.pop() on the LIFO deque. *)
Pop(i) ==
    /\ mainPc = "join"
    /\ wpc[i] = "pop"
    /\ IF deque[i] # <<>>
       THEN /\ deque' = [deque EXCEPT ![i] = AfterPop(@)]
            /\ Expand(i, deque[i][Len(deque[i])])
            /\ sweep' = [sweep EXCEPT ![i] = NoSweep]
            /\ UNCHANGED wk
       ELSE /\ wpc' = [wpc EXCEPT ![i] = "steal"]
            /\ wk' = [wk EXCEPT ![i] = 1]
            /\ sweep' = [sweep EXCEPT ![i] = [NoSweep EXCEPT !.popNone = TRUE]]
            /\ UNCHANGED <<deque, wdir, wrest, expanded>>
    /\ UNCHANGED <<fs, benchmark, mainPc, joinIdx, result, pushed, retries,
                   data, scanned, trace>>
    /\ UNCHANGED progVars
    /\ UNCHANGED browseVars

(* lines 146-153, Steal::Success: the oldest path of the victim's deque. *)
StealSuccess(i) ==
    /\ mainPc = "join"
    /\ wpc[i] = "steal"
    /\ LET v == Stealers(i)[wk[i]]
       IN  /\ deque[v] # <<>>
           /\ deque' = [deque EXCEPT ![v] = AfterSteal(@)]
           /\ Expand(i, Head(deque[v]))
    /\ wk' = [wk EXCEPT ![i] = 0]
    /\ sweep' = [sweep EXCEPT ![i] = NoSweep]
    /\ UNCHANGED <<fs, benchmark, mainPc, joinIdx, result, pushed, retries,
                   data, scanned, trace>>
    /\ UNCHANGED progVars
    /\ UNCHANGED browseVars

(* lines 148-152, Steal::Retry: the steal lost a race; the same stealer is *)
(* asked again.                                                            *)
StealRetry(i) ==
    /\ mainPc = "join"
    /\ wpc[i] = "steal"
    /\ deque[Stealers(i)[wk[i]]] # <<>>
    /\ retries < MaxRetry
    /\ retries' = retries + 1
    /\ UNCHANGED sweep
    /\ IF RetryAgain
       THEN UNCHANGED <<wk, wpc>>
       ELSE IF wk[i] < Len(Stealers(i))
       THEN /\ wk' = [wk EXCEPT ![i] = @ + 1]
            /\ UNCHANGED wpc
       ELSE /\ wk' = [wk EXCEPT ![i] = 0]
            /\ wpc' = [wpc EXCEPT ![i] = "done"]
    /\ UNCHANGED <<fs, benchmark, mainPc, joinIdx, deque, wdir, wrest,
                   result, pushed, expanded, data, scanned, trace>>
    /\ UNCHANGED progVars
    /\ UNCHANGED browseVars

(* lines 150, 154, 191-194, Steal::Empty: on to the next stealer; after    *)
(* the last one the closure returns None and the worker breaks.            *)
StealEmpty(i) ==
    /\ mainPc = "join"
    /\ wpc[i] = "steal"
    /\ deque[Stealers(i)[wk[i]]] = <<>>
    /\ sweep' = [sweep EXCEPT ![i].empty = @ \cup {Stealers(i)[wk[i]]}]
    /\ IF wk[i] < Len(Stealers(i))
       THEN /\ wk' = [wk EXCEPT ![i] = @ + 1]
            /\ UNCHANGED wpc
       ELSE /\ wk' = [wk EXCEPT ![i] = 0]
            /\ wpc' = [wpc EXCEPT ![i] = "done"]
    /\ UNCHANGED <<fs, benchmark, mainPc, joinIdx, deque, wdir, wrest, result,
                   pushed, expanded, retries, data, scanned, trace>>
    /\ UNCHANGED progVars
    /\ UNCHANGED browseVars

(* lines 163-189: one iteration of `for entry in it`. *)
Entry(i) ==
    /\ mainPc = "join"
    /\ wpc[i] = "iter"
    /\ \E e \in wrest[i] :
         IF e.statErr
         THEN /\ wpc' = [wpc EXCEPT ![i] = "panic"]
              /\ UNCHANGED <<wdir, wrest, result, deque, pushed, chan>>
         ELSE /\ wrest' = [wrest EXCEPT ![i] = @ \ {e}]
              /\ IF wrest[i] = {e}
                 THEN /\ wpc' = [wpc EXCEPT ![i] = "pop"]
                      /\ wdir' = [wdir EXCEPT ![i] = <<>>]
                 ELSE UNCHANGED <<wpc, wdir>>
              /\ IF SkipChild(e)
                 THEN UNCHANGED <<result, deque, pushed, chan>>
                 ELSE /\ result' = [result EXCEPT ![i] = Append(@, ChildInfo(e))]
                      /\ chan' = IF (Len(result[i]) + 1) % ProgressEvery = 0
                                 THEN Append(chan, TRUE) ELSE chan
                      /\ IF e.kind = "dir"
                         THEN /\ deque' = [deque EXCEPT ![i] = Append(@, e.path)]
                              /\ pushed' = [pushed EXCEPT ![e.path] = @ + 1]
                         ELSE UNCHANGED <<deque, pushed>>
    /\ UNCHANGED <<fs, benchmark, mainPc, joinIdx, wk, expanded, retries, sweep,
                   progPc, progI, data, scanned, trace>>
    /\ UNCHANGED browseVars

(* lines 116-127: the progress thread. *)
ProgressRecv ==
    /\ progPc = "recv"
    /\ mainPc # "panic"
    /\ chan # <<>>
    /\ chan' = Tail(chan)
    /\ IF Head(chan)
       THEN /\ progI' = progI + 100
            /\ UNCHANGED progPc
       ELSE /\ progPc' = "done"
            /\ UNCHANGED progI
    /\ UNCHANGED <<fs, benchmark, mainPc, joinIdx, data, scanned, trace>>
    /\ UNCHANGED scanVars
    /\ UNCHANGED browseVars

(* lines 207-209: handle.join().unwrap() in spawn order. *)
Join ==
    /\ mainPc = "join"
    /\ wpc[joinIdx] \in {"done", "panic"}
    /\ IF wpc[joinIdx] = "panic"
       THEN /\ mainPc' = "panic"
            /\ UNCHANGED <<joinIdx, data>>
       ELSE /\ data' = data \o result[joinIdx]
            /\ IF joinIdx + 1 < NumThreads
               THEN /\ joinIdx' = joinIdx + 1
                    /\ UNCHANGED mainPc
               ELSE /\ joinIdx' = 0
                    /\ mainPc' = "stop"
    /\ UNCHANGED <<fs, benchmark, scanned, trace>>
    /\ UNCHANGED scanVars
    /\ UNCHANGED progVars
    /\ UNCHANGED browseVars

(* line 211: tx.send(false). *)
SendStop ==
    /\ mainPc = "stop"
    /\ chan' = Append(chan, FALSE)
    /\ mainPc' = "joinprog"
    /\ UNCHANGED <<fs, benchmark, joinIdx, progPc, progI, data, scanned, trace>>
    /\ UNCHANGED scanVars
    /\ UNCHANGED browseVars

(* lines 212-220: progress_handle.join(), return Tree { data: result }. *)
ScanReturn ==
    /\ mainPc = "joinprog"
    /\ progPc = "done"
    /\ mainPc' = "scanned"
    /\ scanned' = data
    /\ trace' = Append(trace, "scan")
    /\ UNCHANGED <<fs, benchmark, joinIdx, data>>
    /\ UNCHANGED scanVars
    /\ UNCHANGED progVars
    /\ UNCHANGED browseVars

----------------------------------------------------------------------------
(* Tree *)

(* line 63: par_sort_unstable_by(|a, b| a.path.cmp(&b.path)). *)
RECURSIVE InsertByPath(_, _)
InsertByPath(sorted, x) ==
    IF sorted = <<>> THEN <<x>>
    ELSE IF PathCmp(x.path, Head(sorted).path) < 0 THEN <<x>> \o sorted
    ELSE <<Head(sorted)>> \o InsertByPath(Tail(sorted), x)

RECURSIVE SortByPath(_)
SortByPath(s) ==
    IF s = <<>> THEN <<>>
    ELSE InsertByPath(SortByPath(SubSeq(s, 1, Len(s) - 1)), s[Len(s)])

(* lines 50-58: the loop body of accumulate for index i, i-1, ..., 1. *)
RECURSIVE AccLoopNoReset(_, _, _, _)
AccLoopNoReset(d, sums, prev_depth, i) ==
    IF i = 0 THEN d
    ELSE LET depth == d[i].depth
             closes == depth < prev_depth
             d1 == IF closes THEN [d EXCEPT ![i].size = @ + sums[prev_depth]] ELSE d
             s2 == [sums EXCEPT ![depth] = @ + d1[i].size]
         IN  AccLoopNoReset(d1, s2, depth, i - 1)

RECURSIVE AccLoop(_, _, _, _)
AccLoop(d, sums, prev_depth, i) ==
    IF i = 0 THEN d
    ELSE LET depth == d[i].depth
             closes == depth < prev_depth
             d1 == IF closes THEN [d EXCEPT ![i].size = @ + sums[prev_depth]] ELSE d
             s1 == IF closes THEN [sums EXCEPT ![prev_depth] = 0] ELSE sums
             s2 == [s1 EXCEPT ![depth] = @ + d1[i].size]
         IN  AccLoop(d1, s2, depth, i - 1)

(* lines 47-59 *)
accumulateNoReset(d) == AccLoopNoReset(d, [k \in 0 .. (SumsLen - 1) |-> 0], 0, Len(d))
accumulate(d) == AccLoop(d, [k \in 0 .. (SumsLen - 1) |-> 0], 0, Len(d))

(* lines 48, 53, 54 and 57: sums is a [u64; 4096] indexed by the depth of   *)
(* every record; an index past its end panics.                             *)
AccInRange(d) == \A k \in 1 .. Len(d) : d[k].depth < SumsLen

(* lines 61-71 *)
preprocess(d) == accumulate(SortByPath(d))

(* line 76: binary_search_by over data[lo+1 .. hi]; 0 stands for Err. *)
RECURSIVE BinarySearch(_, _, _, _)
BinarySearch(d, p, lo, hi) ==
    IF lo >= hi THEN 0
    ELSE LET mid == lo + ((hi - lo) \div 2)
             c == PathCmp(d[mid + 1].path, p)
         IN  IF c = 0 THEN mid + 1
             ELSE IF c < 0 THEN BinarySearch(d, p, mid + 1, hi)
             ELSE BinarySearch(d, p, lo, mid)

locate(d, p) == BinarySearch(d, p, 0, Len(d))

(* line 78: Path::starts_with compares whole components. *)
StartsWithRawString(x, p) ==
    /\ Len(RawBytes(p)) <= Len(RawBytes(x))
    /\ SubSeq(RawBytes(x), 1, Len(RawBytes(p))) = RawBytes(p)

StartsWith(x, p) ==
    /\ Len(p) <= Len(x)
    /\ SubSeq(x, 1, Len(p)) = p

(* line 78: partition_point over s[lo+1 .. hi]. *)
RECURSIVE PartitionPoint(_, _, _, _)
PartitionPoint(s, p, lo, hi) ==
    IF lo >= hi THEN lo
    ELSE LET mid == lo + ((hi - lo) \div 2)
         IN  IF StartsWith(s[mid + 1].path, p)
             THEN PartitionPoint(s, p, mid + 1, hi)
             ELSE PartitionPoint(s, p, lo, mid)

(* line 86: items.sort_by(|a, b| b.size.cmp(&a.size)), a stable sort. *)
RECURSIVE InsertBySizeDesc(_, _)
InsertBySizeDesc(sorted, x) ==
    IF sorted = <<>> THEN <<x>>
    ELSE IF Head(sorted).size < x.size THEN <<x>> \o sorted
    ELSE <<Head(sorted)>> \o InsertBySizeDesc(Tail(sorted), x)

RECURSIVE SortBySizeDesc(_)
SortBySizeDesc(s) ==
    IF s = <<>> THEN <<>>
    ELSE InsertBySizeDesc(SortBySizeDesc(SubSeq(s, 1, Len(s) - 1)), s[Len(s)])

(* lines 73-88, for a path that locate finds. *)
get(d, p) ==
    LET start == locate(d, p)
        rest == SubSeq(d, start, Len(d))
        end == PartitionPoint(rest, p, 0, Len(rest))
        target == Depth(p) + 1
        IsChild(x) == x.depth = target
    IN  SortBySizeDesc(SelectSeq(SubSeq(rest, 1, end), IsChild))

(* lines 73 and 80-86: get borrows the tree as &Self and sorts a copy of   *)
(* the slice (to_vec), so the index after the call is the index before it. *)
IndexAfterGetSorted(d, p) == SortBySizeDesc(d)
IndexAfterGet(d, p) == d

(* History of the calls of Tree::get: the first call on a path is kept. *)
Shown(sh, d, p) ==
    IF p \in DOMAIN sh THEN sh
    ELSE sh @@ (p :> [list |-> get(d, p), index |-> d])

----------------------------------------------------------------------------
(* main *)

(* lines 279-281: exit(0) in benchmark mode, before preprocess. *)
BenchmarkExit ==
    /\ mainPc = "scanned"
    /\ benchmark
    /\ mainPc' = "exit"
    /\ trace' = Append(trace, "exit")
    /\ UNCHANGED <<fs, benchmark, joinIdx, data, scanned>>
    /\ UNCHANGED scanVars
    /\ UNCHANGED progVars
    /\ UNCHANGED browseVars

(* line 282: tree.preprocess(). *)
Preprocess ==
    /\ mainPc = "scanned"
    /\ ~benchmark
    /\ IF AccInRange(data)
       THEN /\ data' = preprocess(data)
            /\ mainPc' = "sorted"
            /\ trace' = Append(trace, "preprocess")
       ELSE /\ data' = SortByPath(data)
            /\ mainPc' = "panic"
            /\ UNCHANGED trace
    /\ UNCHANGED <<fs, benchmark, joinIdx, scanned>>
    /\ UNCHANGED scanVars
    /\ UNCHANGED progVars
    /\ UNCHANGED browseVars

(* ratatui's List::render (called at line 261): an empty list clears the   *)
(* selection, a selection past the end moves to the last item.             *)
Render(its, sel) ==
    IF its = <<>> THEN None
    ELSE IF sel # None /\ sel >= Len(its) THEN Len(its) - 1
    ELSE sel

(* lines 284-308: enter the alternate screen, build the list for the root *)
(* and draw the first frame.                                               *)
EnterBrowse ==
    /\ mainPc = "sorted"
    /\ IF locate(data, cwd) = 0
       THEN /\ mainPc' = "panic"
            /\ asked' = asked \cup {cwd}
            /\ UNCHANGED <<trace, depths, items, selected, data, shown>>
       ELSE /\ mainPc' = "browse"
            /\ trace' = Append(trace, "browse")
            /\ depths' = <<0>>
            /\ items' = get(data, cwd)
            /\ selected' = Render(get(data, cwd), 0)
            /\ data' = IndexAfterGet(data, cwd)
            /\ shown' = Shown(shown, data, cwd)
            /\ asked' = asked \cup {cwd}
    /\ UNCHANGED <<fs, benchmark, joinIdx, scanned, cwd, entered, nav>>
    /\ UNCHANGED scanVars
    /\ UNCHANGED progVars

(* main is left, by return or by a panic: cwd, depths and list go out of   *)
(* scope.                                                                  *)
Dropped ==
    /\ cwd' = Root
    /\ depths' = <<>>
    /\ items' = <<>>
    /\ selected' = None
    /\ entered' = <<>>
    /\ nav' = NoNav

(* lines 327-330 and 359-364: k or ScrollUp, j or ScrollDown, G, g; then   *)
(* the next frame is drawn.  select_last and select_previous on None ask   *)
(* for usize::MAX, which render treats as any index past the end.          *)
KeySelect ==
    /\ mainPc = "browse"
    /\ \E key \in {"k", "j", "G", "g"} :
         selected' = Render(items,
             CASE key = "k" -> IF selected = None THEN Len(items)
                               ELSE IF selected = 0 THEN 0 ELSE selected - 1
               [] key = "j" -> IF selected = None THEN 0 ELSE selected + 1
               [] key = "G" -> Len(items)
               [] key = "g" -> 0)
    /\ UNCHANGED <<fs, benchmark, mainPc, joinIdx, data, scanned, trace,
                   cwd, depths, items, shown, asked, entered>>
    /\ nav' = NoNav
    /\ UNCHANGED scanVars
    /\ UNCHANGED progVars

(* lines 310-324: the closure interact, then the next frame is drawn. *)
Interact ==
    IF selected = None
    THEN /\ nav' = NoNav
         /\ UNCHANGED <<mainPc, cwd, depths, items, selected, data, shown, asked,
                        entered>>
    ELSE IF items[selected + 1].is_dir
    THEN IF locate(data, items[selected + 1].path) = 0
         THEN /\ mainPc' = "panic"
              /\ asked' = asked \cup {items[selected + 1].path}
              /\ UNCHANGED <<cwd, depths, items, selected, data, shown, entered,
                             nav>>
         ELSE /\ cwd' = items[selected + 1].path
              /\ depths' = Append(depths, selected)
              /\ items' = get(data, items[selected + 1].path)
              /\ selected' = Render(get(data, items[selected + 1].path), selected)
              /\ data' = IndexAfterGet(data, items[selected + 1].path)
              /\ shown' = Shown(shown, data, items[selected + 1].path)
              /\ asked' = asked \cup {items[selected + 1].path}
              /\ entered' = Append(entered, [cwd |-> cwd, items |-> items,
                                             selected |-> selected])
              /\ nav' = [kind |-> "enter", cwd |-> cwd, items |-> items,
                         selected |-> selected]
              /\ UNCHANGED mainPc
    ELSE /\ nav' = NoNav
         /\ UNCHANGED <<mainPc, cwd, depths, items, selected, data, shown, asked,
                        entered>>

(* lines 339-341: Enter calls interact. *)
KeyEnter ==
    /\ mainPc = "browse"
    /\ Interact
    /\ UNCHANGED <<fs, benchmark, joinIdx, scanned, trace>>
    /\ UNCHANGED scanVars
    /\ UNCHANGED progVars

(* lines 344-358: a mouse button goes down on terminal row `row`; the list *)
(* area starts at row 0.  On row 0 the u16 subtraction row - area.y - 1    *)
(* overflows: a build with overflow checks panics, one without wraps to an *)
(* index past the end.                                                     *)
MouseDown ==
    /\ mainPc = "browse"
    /\ \E row \in 0 .. (Len(items) + 1) :
         IF row = 0
         THEN \/ /\ mainPc' = "panic"
                 /\ Dropped
                 /\ UNCHANGED <<data, shown, asked>>
              \/ /\ selected' = Render(items, Len(items))
                 /\ nav' = NoNav
                 /\ UNCHANGED <<mainPc, cwd, depths, items, data, shown, asked,
                                entered>>
         ELSE IF selected = row - 1
         THEN Interact
         ELSE /\ selected' = Render(items, row - 1)
              /\ nav' = NoNav
              /\ UNCHANGED <<mainPc, cwd, depths, items, data, shown, asked,
                             entered>>
    /\ UNCHANGED <<fs, benchmark, joinIdx, scanned, trace>>
    /\ UNCHANGED scanVars
    /\ UNCHANGED progVars

(* line 332: '-' acts only while the stack holds an entry above the one    *)
(* for the scan root.                                                      *)
CanGoBackAlways(ds) == Len(ds) >= 1
CanGoBack(ds) == Len(ds) >= 2

(* line 335: select(Some(depths.pop().unwrap())). *)
RestoredSelectionFirst(ds) == 0
RestoredSelection(ds) == ds[Len(ds)]

(* lines 331-337: '-' goes back to the parent directory. *)
KeyMinus ==
    /\ mainPc = "browse"
    /\ CanGoBack(depths)
    /\ IF locate(data, Parent(cwd)) = 0
       THEN /\ mainPc' = "panic"
            /\ asked' = asked \cup {Parent(cwd)}
            /\ UNCHANGED <<cwd, depths, items, selected, data, shown, entered, nav>>
       ELSE /\ cwd' = Parent(cwd)
            /\ items' = get(data, Parent(cwd))
            /\ selected' = Render(get(data, Parent(cwd)), RestoredSelection(depths))
            /\ depths' = SubSeq(depths, 1, Len(depths) - 1)
            /\ data' = IndexAfterGet(data, Parent(cwd))
            /\ shown' = Shown(shown, data, Parent(cwd))
            /\ asked' = asked \cup {Parent(cwd)}
            /\ entered' = SubSeq(entered, 1, Len(entered) - 1)
            /\ nav' = [kind |-> "back", cwd |-> entered[Len(entered)].cwd,
                       items |-> entered[Len(entered)].items,
                       selected |-> entered[Len(entered)].selected]
            /\ UNCHANGED mainPc
    /\ UNCHANGED <<fs, benchmark, joinIdx, scanned, trace>>
    /\ UNCHANGED scanVars
    /\ UNCHANGED progVars

(* lines 338 and 371-378: q or Esc leaves the loop and main returns. *)
KeyQuit ==
    /\ mainPc = "browse"
    /\ mainPc' = "exit"
    /\ trace' = Append(trace, "exit")
    /\ Dropped
    /\ UNCHANGED <<fs, benchmark, joinIdx, data, scanned, shown, asked>>
    /\ UNCHANGED scanVars
    /\ UNCHANGED progVars

Next ==
    \/ ScanStart
    \/ \E i \in Workers : Pop(i)
    \/ \E i \in Workers : StealSuccess(i)
    \/ \E i \in Workers : StealRetry(i)
    \/ \E i \in Workers : StealEmpty(i)
    \/ \E i \in Workers : Entry(i)
    \/ ProgressRecv
    \/ Join
    \/ SendStop
    \/ ScanReturn
    \/ BenchmarkExit
    \/ Preprocess
    \/ EnterBrowse
    \/ KeySelect
    \/ KeyEnter
    \/ MouseDown
    \/ KeyMinus
    \/ KeyQuit

Spec == Init /\ [][Next]_vars

(* Every spawned thread is an OS thread (lines 115, 139) and main blocks   *)
(* in join (lines 207-212): a thread that can take a step eventually does. *)
WorkerStep(i) == Pop(i) \/ StealSuccess(i) \/ StealEmpty(i) \/ Entry(i)

MainScanStep == ScanStart \/ Join \/ SendStop \/ ScanReturn

FairSpec ==
    /\ Init /\ [][Next]_vars
    /\ \A i \in Workers : WF_vars(WorkerStep(i))
    /\ WF_vars(ProgressRecv)
    /\ WF_vars(MainScanStep)

----------------------------------------------------------------------------
(* Tree::accumulate on its own: the state after scan has returned a        *)
(* well-formed index whose root lies at a chosen depth.  A tree is given   *)
(* by its preorder profile, the depth of each record below the root; the   *)
(* components of the root's own path above the scan root are not spelled   *)
(* out, only counted in the depth fields (line 204: components().count()). *)

MaxRecs == 5

RootDepths == {Depth(Root), SumsLen - 2, SumsLen - 1}

Profiles ==
    { s \in UNION { [1 .. n -> 0 .. (n - 1)] : n \in 1 .. MaxRecs } :
        /\ s[1] = 0
        /\ \A k \in 2 .. Len(s) : s[k] >= 1 /\ s[k] <= s[k - 1] + 1 }

ProfileParent(s, k) ==
    CHOOSE j \in 1 .. (k - 1) :
        /\ s[j] = s[k] - 1
        /\ \A m \in (j + 1) .. (k - 1) : s[m] >= s[k]

RECURSIVE ProfilePath(_, _)
ProfilePath(s, k) ==
    IF k = 1 THEN Root
    ELSE Append(ProfilePath(s, ProfileParent(s, k)), <<96 + k>>)

ProfileIsDir(s, k) == k = 1 \/ (k < Len(s) /\ s[k + 1] > s[k])

ProfileIndex(s, b) ==
    [k \in 1 .. Len(s) |->
        [path |-> ProfilePath(s, k),
         depth |-> b + s[k],
         size |-> IF k = 1 THEN Dir(Root).size
                  ELSE IF ProfileIsDir(s, k) THEN 0 ELSE k,
         is_dir |-> ProfileIsDir(s, k)]]

InitAcc ==
    /\ \E s \in Profiles : \E b \in RootDepths :
         /\ data = ProfileIndex(s, b)
         /\ fs = { IF ProfileIsDir(s, k) THEN Dir(ProfilePath(s, k))
                   ELSE File(ProfilePath(s, k), k) : k \in 1 .. Len(s) }
    /\ scanned = data
    /\ benchmark = FALSE
    /\ mainPc = "scanned"
    /\ trace = <<"scan">>
    /\ joinIdx = NumThreads
    /\ deque = [i \in Workers |-> <<>>]
    /\ wpc = [i \in Workers |-> "done"]
    /\ wk = [i \in Workers |-> 0]
    /\ wdir = [i \in Workers |-> <<>>]
    /\ wrest = [i \in Workers |-> {}]
    /\ result = [i \in Workers |-> <<>>]
    /\ pushed = [p \in Universe |-> 0]
    /\ expanded = [p \in Universe |-> 0]
    /\ retries = 0
    /\ sweep = [i \in Workers |-> NoSweep]
    /\ chan = <<>>
    /\ progPc = "done"
    /\ progI = 0
    /\ cwd = Root
    /\ depths = <<>>
    /\ items = <<>>
    /\ selected = None
    /\ shown = <<>>
    /\ asked = {}
    /\ entered = <<>>
    /\ nav = NoNav

NextAcc == Preprocess

SpecAcc == InitAcc /\ [][NextAcc]_vars

----------------------------------------------------------------------------
(* Vocabulary of the properties *)

InFs(p) == \E n \in fs : n.path = p

Range(s) == { s[k] : k \in 1 .. Len(s) }

Count(s, p) == Cardinality({ k \in 1 .. Len(s) : s[k].path = p })

RECURSIVE SumSizes(_)
SumSizes(s) == IF s = <<>> THEN 0 ELSE Head(s).size + SumSizes(Tail(s))

RECURSIVE SumNodeSizes(_)
SumNodeSizes(S) ==
    IF S = {} THEN 0
    ELSE LET n == CHOOSE x \in S : TRUE IN n.size + SumNodeSizes(S \ {n})

(* The directories strictly between the scan root and p, and the root. *)
ProperAncestors(p) == { SubSeq(p, 1, k) : k \in Len(Root) .. (Len(p) - 1) }

Excluded(n) == n.kind = "symlink" \/ n.dev # Node(Root).dev

(* n is reached from the root through entries that are neither symlinks   *)
(* nor on another device, and is itself neither.                           *)
Included(n) ==
    /\ n.path # Root
    /\ ~Excluded(n)
    /\ \A a \in ProperAncestors(n.path) : a # Root => ~Excluded(Node(a))

(* Every directory above n can be listed. *)
Listed(n) == \A a \in ProperAncestors(n.path) : ~Node(a).listErr

Recorded(n) == Included(n) /\ Listed(n)

ScanReturned == \E k \in 1 .. Len(trace) : trace[k] = "scan"

Preprocessed == \E k \in 1 .. Len(trace) : trace[k] = "preprocess"

Browsed == \E k \in 1 .. Len(trace) : trace[k] = "browse"

NoListingFailed == \A p \in Universe : expanded[p] > 0 => ~Node(p).listErr

RawSize(p) == scanned[CHOOSE k \in 1 .. Len(scanned) : scanned[k].path = p].size

StrictlyUnder(q, p) == Under(q, p) /\ q # p

----------------------------------------------------------------------------
(* C1: when scan returns and no failure occurred, the result holds exactly *)
(* one record for the root and exactly one for every descendant reached    *)
(* through entries that are not symlinks and are on the root's device, and *)
(* no other record; this in every interleaving of the workers.             *)
C1_ScanResultExact ==
    (ScanReturned /\ NoListingFailed) =>
        /\ \A k \in 1 .. Len(scanned) : scanned[k].path \in Universe
        /\ \A p \in Universe :
             Count(scanned, p) =
                 IF p = Root \/ (InFs(p) /\ Included(Node(p))) THEN 1 ELSE 0

C1_Witness ==
    /\ mainPc = "scanned"
    /\ NoListingFailed
    /\ \A i \in Workers : result[i] # <<>>
    /\ Len(scanned) = 6

(* C2: after preprocess every directory record's size is its scanned size  *)
(* plus the scanned sizes of all its strict descendants, which is also its *)
(* scanned size plus the aggregated sizes of its immediate children; every *)
(* file record keeps its scanned size.                                     *)
C2_Conservation ==
    Preprocessed =>
        \A k \in 1 .. Len(data) :
            LET r == data[k]
                IsDesc(x) == StrictlyUnder(x.path, r.path)
                IsKid(x) == Len(x.path) = Len(r.path) + 1 /\ Under(x.path, r.path)
            IN  IF r.is_dir
                THEN /\ r.size = RawSize(r.path) + SumSizes(SelectSeq(scanned, IsDesc))
                     /\ r.size = RawSize(r.path) + SumSizes(SelectSeq(data, IsKid))
                ELSE r.size = RawSize(r.path)

C2_Witness ==
    /\ Preprocessed
    /\ \E k, j \in 1 .. Len(data) :
         /\ data[k].is_dir /\ data[j].is_dir
         /\ data[k].path # Root
         /\ StrictlyUnder(data[j].path, data[k].path)
         /\ data[j].size > 0
         /\ data[k].size > data[j].size

(* C3: after scan, sort and aggregation the root record's size is the sum  *)
(* of the raw sizes of the files of the reachable subtree, whatever the    *)
(* directory inodes report.                                                *)
C3_RootIsFileSum ==
    Preprocessed =>
        \A k \in 1 .. Len(data) :
            data[k].path = Root =>
                data[k].size =
                    SumNodeSizes({ n \in fs : n.kind = "file" /\ Recorded(n) })

(* C4: for every directory p of the aggregated index, get(p) returns       *)
(* exactly the records that are immediate children of p, with their        *)
(* aggregated sizes, largest first; never p, deeper descendants or         *)
(* siblings whose name only has p's name as a string prefix.               *)
C4_ListChildren ==
    /\ Preprocessed =>
         \A k \in 1 .. Len(data) :
             data[k].is_dir =>
                 LET p == data[k].path
                     L == get(data, p)
                 IN  /\ \A j \in 1 .. Len(L) :
                            L[j] \in Range(data) /\ Parent(L[j].path) = p
                     /\ \A x \in Range(data) :
                            Parent(x.path) = p =>
                                Cardinality({ j \in 1 .. Len(L) : L[j] = x }) = 1
                     /\ \A i, j \in 1 .. Len(L) : i < j => L[i].size >= L[j].size
    /\ mainPc = "browse" => items = get(data, cwd)

C4_Witness ==
    /\ mainPc = "browse"
    /\ cwd = <<NmR, NmA>>
    /\ Len(items) = 2
    /\ items[1].size > items[2].size
    /\ \E x \in Range(data) : x.path = <<NmR, NmADash>>

(* C5: after the sort, the strict descendants of every directory record    *)
(* are one contiguous run right after it, also with names holding a byte   *)
(* below the separator.                                                    *)
C5_Contiguity ==
    Preprocessed =>
        \A k \in 1 .. Len(data) :
            data[k].is_dir =>
                LET D == { j \in 1 .. Len(data) :
                             StrictlyUnder(data[j].path, data[k].path) }
                IN  D = (k + 1) .. (k + Cardinality(D))

C5_Witness ==
    /\ mainPc = "sorted"
    /\ \E k \in 1 .. Len(data) :
         /\ data[k].path = <<NmR, NmA>>
         /\ k < Len(data)
         /\ StrictlyUnder(data[k + 1].path, data[k].path)
         /\ \E j \in (k + 2) .. Len(data) : data[j].path = <<NmR, NmADash>>

(* C6: every path is pushed at most once, is taken and expanded at most    *)
(* once, by one worker, and exactly once when all workers have left their  *)
(* loops; no two workers expand the same directory.                        *)
C6_ExpandedOnce ==
    /\ \A p \in Universe :
         /\ pushed[p] <= 1
         /\ expanded[p] <= pushed[p]
         /\ (\A i \in Workers : wpc[i] = "done") => expanded[p] = pushed[p]
    /\ \A i, j \in Workers :
         (i # j /\ wdir[i] # <<>>) => wdir[i] # wdir[j]

C6_Witness ==
    /\ \A i \in Workers : wpc[i] = "done" /\ result[i] # <<>>
    /\ Cardinality({ p \in Universe : expanded[p] = 1 }) >= 3

(* C7: a child that is a symlink or on another device gets no record, is   *)
(* never pushed, nothing beneath it is visited, and it adds nothing to the *)
(* aggregated size of any ancestor.                                        *)
C7_ExcludedChildren ==
    /\ \A n \in fs :
         (n.path # Root /\ Excluded(n)) =>
             \A m \in fs :
                 Under(m.path, n.path) =>
                     /\ pushed[m.path] = 0
                     /\ expanded[m.path] = 0
                     /\ Count(data, m.path) = 0
                     /\ \A i \in Workers : Count(result[i], m.path) = 0
    /\ Preprocessed =>
         \A k \in 1 .. Len(data) :
             data[k].is_dir =>
                 data[k].size =
                     RawSize(data[k].path) +
                     SumNodeSizes({ f \in fs : /\ f.kind = "file"
                                               /\ StrictlyUnder(f.path, data[k].path)
                                               /\ Recorded(f) })

C7_Witness ==
    /\ Preprocessed
    /\ \E n \in fs :
         /\ n.path # Root
         /\ Excluded(n)
         /\ n.size > 0
         /\ \E m \in fs : StrictlyUnder(m.path, n.path)
         /\ expanded[Parent(n.path)] = 1

(* C8: a failed listing does not abort the scan: the worker is back at the *)
(* top of its loop, no thread panics, and when scan returns the failing    *)
(* directory's record is in the result without children while every other  *)
(* reachable entry is recorded and every other directory expanded.         *)
C8_ListingFailure ==
    \A n \in fs :
        (n.listErr /\ expanded[n.path] > 0) =>
            /\ \A i \in Workers : wdir[i] # n.path
            /\ (\A m \in fs : ~m.statErr) =>
                 /\ \A i \in Workers : wpc[i] # "panic"
                 /\ mainPc = "panic" => ScanReturned
            /\ ScanReturned =>
                 /\ Count(scanned, n.path) = 1
                 /\ \A x \in Range(scanned) : Parent(x.path) # n.path
                 /\ \A m \in fs :
                      Recorded(m) =>
                          /\ Count(scanned, m.path) = 1
                          /\ m.kind = "dir" => expanded[m.path] = 1

C8_Witness ==
    /\ ScanReturned
    /\ \E n \in fs :
         /\ n.listErr
         /\ n.path # Root
         /\ expanded[n.path] = 1
         /\ \E m \in fs : StrictlyUnder(m.path, n.path)
    /\ Len(scanned) >= 4

(* C9: a failing stat of one entry only skips that entry: no thread        *)
(* panics and the scan goes on to return its result.                       *)
C9_StatFailureSkipped ==
    /\ \A i \in Workers : wpc[i] # "panic"
    /\ mainPc = "panic" => ScanReturned

(* C10: in benchmark mode the program has scanned, sorted and aggregated   *)
(* when it exits, and has not entered the interactive view.                *)
C10_BenchmarkAggregates ==
    (benchmark /\ mainPc = "exit") =>
        (ScanReturned /\ Preprocessed /\ ~Browsed)

C12_GetPathsIndexed ==
    /\ \A p \in asked :
         /\ locate(data, p) # 0
         /\ \E k \in 1 .. Len(data) : data[k].path = p /\ data[k].is_dir
    /\ Under(cwd, Root)

C12_Witness ==
    /\ mainPc = "browse"
    /\ cwd = Root
    /\ nav.kind = "back"
    /\ Cardinality(asked) >= 3

(* C13: no worker has left its loop while a directory is still queued on   *)
(* some deque or a peer is in the middle of expanding one.                 *)
C13_NoExitBeforeQuiescence ==
    \A i \in Workers :
        wpc[i] = "done" =>
            \A j \in Workers : deque[j] = <<>> /\ wpc[j] # "iter"

C15_ScanCompletes ==
    (mainPc = "join") ~>
        (/\ ScanReturned
         /\ \A i \in Workers : wpc[i] = "done"
         /\ progPc = "done")

C17_NoDepthLimit ==
    /\ mainPc # "panic"
    /\ mainPc = "sorted" => data[1].size = SumSizes(scanned)

(* C18: in the scan result every record but the root's has the record of   *)
(* its parent directory, flagged is_dir and one level less deep; and in    *)
(* the sorted index, which accumulate walks backwards, a record that is    *)
(* less deep than its successor is exactly one level less deep and is the  *)
(* directory that holds the successor.                                     *)
C18_ParentRecordPresent ==
    /\ ScanReturned =>
         \A x \in Range(scanned) :
             x.path # Root =>
                 \E y \in Range(scanned) :
                     /\ y.path = Parent(x.path)
                     /\ y.is_dir
                     /\ x.depth = y.depth + 1
    /\ Preprocessed =>
         \A k \in 1 .. (Len(data) - 1) :
             data[k].depth < data[k + 1].depth =>
                 /\ data[k].depth = data[k + 1].depth - 1
                 /\ data[k].path = Parent(data[k + 1].path)
                 /\ data[k].is_dir

C18_Witness ==
    /\ Preprocessed
    /\ Len(data) >= 6
    /\ \E k \in 1 .. (Len(data) - 1) : data[k].depth < data[k + 1].depth
    /\ \E k \in 1 .. (Len(data) - 1) : data[k].depth > data[k + 1].depth

(* C19: while browsing, depths holds one entry more than cwd lies levels   *)
(* below the scan root; and right after '-' the current directory, the     *)
(* displayed items and the selected index are those of the moment the      *)
(* directory just left was entered.                                        *)
C19_BackRestores ==
    /\ mainPc = "browse" => Len(depths) = 1 + (Len(cwd) - Len(Root))
    /\ (mainPc = "browse" /\ nav.kind = "back") =>
         /\ cwd = nav.cwd
         /\ items = nav.items
         /\ selected = nav.selected

C19_Witness ==
    /\ mainPc = "browse"
    /\ nav.kind = "back"
    /\ selected >= 1
    /\ cwd # Root
    /\ Len(depths) = 2

====
